---- MODULE Spec2Model ----
(***************************************************************************)
(* Model of prereise/gather/griddata/transmission/geometry.py: the value   *)
(* objects Conductor, ConductorBundle and Tower, each resolved by its      *)
(* __post_init__ at construction.                                          *)
(*                                                                         *)
(* Numbers.  The code works on Python floats.  The model works on exact    *)
(* non-negative reals of the form                                          *)
(*      prod_p p^(e_p/Unit) * prod_s s^(f_s/Unit)                          *)
(* (p a prime, s one of the symbols pi, exp(1/4), resistivity of a         *)
(* material), which is closed under the only arithmetic the module does    *)
(* on them: products, quotients, integer powers and the roots ** (1/2),    *)
(* ** (1/3), ** (1/4), ** (1/8).  Sums appear only under sqrt() in         *)
(* calculate_distances, where the model adds the integer coordinates       *)
(* first.  Zero and None are separate kinds of value.  Negative            *)
(* magnitudes are outside the modelled inputs (x coordinates excepted).    *)
(***************************************************************************)
EXTENDS Integers, FiniteSets, Sequences, TLC

\* ------------------------------------------------------------------ bounds
\* n of a bundle is drawn from 0..MaxN
MaxN == 5
\* radius, area and spacing are drawn from 0..MaxMag
MaxMag == 2
\* horizontal offset of the outer phases from the middle one: 0..MaxX
MaxX == 1
\* phase heights: 0..MaxH
MaxH == 1

\* exponents are kept in units of 1/Unit; 24 is a multiple of every root
\* degree taken (2, 3, 4, 8, and 6 for the cube root of a square root)
Unit == 8 * 3

\* the largest integer the model turns into a value
MaxInt ==
    LET cands == {7, MaxN, MaxMag,
                  (2 * MaxX) * (2 * MaxX) + (2 * (MaxH + 1)) * (2 * (MaxH + 1))}
    IN  CHOOSE m \in cands : \A k \in cands : k <= m

IsPrime(p) == p > 1 /\ \A d \in 2..(p - 1) : p % d /= 0

Primes == {p \in 2..MaxInt : IsPrime(p)}

Syms == {"pi", "exp(1/4)", "rho_aluminum"}

\* ------------------------------------------------------------ value algebra
NoExp == [p |-> [q \in Primes |-> 0], s |-> [t \in Syms |-> 0]]

\* Python's None
None == [k |-> "None", e |-> NoExp]

\* the float 0.0
Zero == [k |-> "zero", e |-> NoExp]

\* the float 1.0
One == [k |-> "pos", e |-> NoExp]

RECURSIVE Multiplicity(_, _)
Multiplicity(p, n) == IF n % p = 0 THEN 1 + Multiplicity(p, n \div p) ELSE 0

\* the non-negative integer n as a value
FromInt(n) ==
    IF n = 0 THEN Zero
    ELSE [k |-> "pos",
          e |-> [p |-> [q \in Primes |-> Unit * Multiplicity(q, n)],
                 s |-> [t \in Syms |-> 0]]]

\* the symbol t (pi, exp(1/4), a resistivity) as a value
Symbol(t) ==
    [k |-> "pos",
     e |-> [p |-> [q \in Primes |-> 0],
            s |-> [u \in Syms |-> IF u = t THEN Unit ELSE 0]]]

IsNone(a) == a.k = "None"

IsZero(a) == a.k = "zero"

\* a * b on floats (neither operand None)
Mul(a, b) ==
    IF IsZero(a) \/ IsZero(b) THEN Zero
    ELSE [k |-> "pos",
          e |-> [p |-> [q \in Primes |-> a.e.p[q] + b.e.p[q]],
                 s |-> [t \in Syms |-> a.e.s[t] + b.e.s[t]]]]

\* a / b on floats, b not zero (the caller raises ZeroDivisionError first)
Div(a, b) ==
    IF IsZero(a) THEN Zero
    ELSE [k |-> "pos",
          e |-> [p |-> [q \in Primes |-> a.e.p[q] - b.e.p[q]],
                 s |-> [t \in Syms |-> a.e.s[t] - b.e.s[t]]]]

\* a ** n for an integer n >= 1
Pow(a, n) ==
    IF IsZero(a) THEN Zero
    ELSE [k |-> "pos",
          e |-> [p |-> [q \in Primes |-> n * a.e.p[q]],
                 s |-> [t \in Syms |-> n * a.e.s[t]]]]

\* exponents that a root of degree n cannot divide are not representable:
\* the model then has no value (TLC stops with an error)
Exact(a, n) ==
    /\ \A q \in Primes : a.e.p[q] % n = 0
    /\ \A t \in Syms : a.e.s[t] % n = 0

\* a ** (1 / n) for a >= 0; 0.0 ** (1 / n) is 0.0
Root(a, n) ==
    IF IsZero(a) THEN Zero
    ELSE IF ~Exact(a, n) THEN CHOOSE x \in {} : TRUE
    ELSE [k |-> "pos",
          e |-> [p |-> [q \in Primes |-> a.e.p[q] \div n],
                 s |-> [t \in Syms |-> a.e.s[t] \div n]]]

\* math.pi
Pi == Symbol("pi")

\* exp(k / 4) for an integer k >= 0
ExpQuarter(k) == IF k = 0 THEN One ELSE Pow(Symbol("exp(1/4)"), k)

\* ---------------------------------------------------- material constants
\* const.relative_permeability: material -> relative permeability
relative_permeability == [aluminum |-> 1]

\* const.resistivity: material -> resistivity (ohm-metres), kept symbolic
resistivity == [aluminum |-> Symbol("rho_aluminum")]

\* ------------------------------------------------------------- exceptions
\* An exception is named by its Python class, with one exception: the
\* ValueError that math.log raises on 0 is named "math domain error", to keep
\* it apart from the ValueError the module raises itself.
\* the exceptions the module raises itself
Taxonomy == {"ValueError", "NotImplementedError"}

\* --------------------------------------------------------------- Conductor
\* the fields of a Conductor whose __init__ has stored the arguments
ConductorFields(radius, material, resistance_per_km, gmr, area) ==
    [cls |-> "Conductor", radius |-> radius, material |-> material,
     resistance_per_km |-> resistance_per_km, gmr |-> gmr, area |-> area,
     permeability |-> None, resistivity |-> None]

\* lines 34-41: gmr from material and radius
ResolveGmr(self) ==
    IF ~IsNone(self.gmr) THEN [raised |-> "none", self |-> self]
    ELSE IF self.material \notin DOMAIN relative_permeability
         THEN [raised |-> "ValueError", self |-> self]
    ELSE LET mu == relative_permeability[self.material]
         IN  [raised |-> "none",
              self |-> [self EXCEPT !.permeability = FromInt(mu),
                                    !.gmr = Mul(self.radius, ExpQuarter(mu))]]

\* mutant: the solid cross-section replaces a supplied area
DefaultArea_AlwaysSolid(self) == Mul(Pi, Pow(self.radius, 2))

\* lines 51-52: the default cross-section
DefaultArea(self) ==
    IF IsNone(self.area) THEN Mul(Pi, Pow(self.radius, 2)) ELSE self.area

\* lines 43-54: resistance_per_km from material and area
ResolveResistance(self) ==
    IF ~IsNone(self.resistance_per_km) THEN [raised |-> "none", self |-> self]
    ELSE IF self.material \notin DOMAIN resistivity
         THEN [raised |-> "ValueError", self |-> self]
    ELSE LET rho == resistivity[self.material]
             s1 == [self EXCEPT !.resistivity = rho, !.area = DefaultArea(self)]
         IN  IF IsZero(s1.area)
             THEN [raised |-> "ZeroDivisionError", self |-> s1]
             ELSE [raised |-> "none",
                   self |-> [s1 EXCEPT !.resistance_per_km =
                                Div(Mul(rho, FromInt(1000)), s1.area)]]

\* Conductor.__post_init__
Conductor_post_init(self) ==
    IF IsNone(self.gmr) /\ (self.material = "None" \/ IsNone(self.radius))
    THEN [raised |-> "ValueError", self |-> self]
    ELSE IF IsNone(self.resistance_per_km)
            /\ (self.material = "None" \/ IsNone(self.radius))
    THEN [raised |-> "ValueError", self |-> self]
    ELSE LET g == ResolveGmr(self)
         IN  IF g.raised /= "none" THEN g ELSE ResolveResistance(g.self)

\* --------------------------------------------------------- ConductorBundle
Ok(v) == [raised |-> "none", val |-> v]

Raise(exc) == [raised |-> exc, val |-> None]

\* the fields of a ConductorBundle whose __init__ has stored the arguments;
\* its conductor field refers to the object held in the variable conductor
BundleFields(n, spacing, layout) ==
    [cls |-> "ConductorBundle", n |-> n, spacing |-> spacing, layout |-> layout,
     resistance_per_km |-> None, spacing_L |-> None, spacing_C |-> None]

\* ConductorBundle.calculate_equivalent_spacing_circular
calculate_equivalent_spacing_circular(self, conductor_distance) ==
    IF self.n = 3
    THEN IF IsNone(conductor_distance) THEN Raise("TypeError")
         ELSE Ok(Root(Mul(conductor_distance, Pow(self.spacing, self.n - 1)), self.n))
    ELSE IF self.n = 4
    THEN IF IsNone(conductor_distance) THEN Raise("TypeError")
         ELSE Ok(Root(Mul(Mul(conductor_distance, Pow(self.spacing, 3)),
                          Root(FromInt(2), 2)), 4))
    ELSE Raise("NotImplementedError")

\* mutant: the flat n = 4 spacing taken as a fourth root, like the circular one
calculate_equivalent_spacing_flat_fourth_root(self, conductor_distance) ==
    IF self.n = 3
    THEN IF IsNone(conductor_distance) THEN Raise("TypeError")
         ELSE Ok(Root(Mul(Mul(conductor_distance, FromInt(2)), Pow(self.spacing, 2)), 3))
    ELSE IF self.n = 4
    THEN IF IsNone(conductor_distance) THEN Raise("TypeError")
         ELSE Ok(Root(Mul(Mul(conductor_distance, FromInt(12)), Pow(self.spacing, 3)), 4))
    ELSE Raise("NotImplementedError")

\* ConductorBundle.calculate_equivalent_spacing_flat
calculate_equivalent_spacing_flat(self, conductor_distance) ==
    IF self.n = 3
    THEN IF IsNone(conductor_distance) THEN Raise("TypeError")
         ELSE Ok(Root(Mul(Mul(conductor_distance, FromInt(2)), Pow(self.spacing, 2)), 3))
    ELSE IF self.n = 4
    THEN IF IsNone(conductor_distance) THEN Raise("TypeError")
         ELSE Ok(Root(Mul(Mul(conductor_distance, FromInt(12)), Pow(self.spacing, 3)), 8))
    ELSE Raise("NotImplementedError")

\* lines 70-75: the conductor's own distance for the kind of spacing asked
conductor_distance_for(cond, type) ==
    IF type = "inductance" THEN Ok(cond.gmr)
    ELSE IF type = "capacitance" THEN Ok(cond.radius)
    ELSE Raise("ValueError")

\* ConductorBundle.calculate_equivalent_spacing
calculate_equivalent_spacing(self, cond, type) ==
    LET cd == conductor_distance_for(cond, type)
    IN  IF cd.raised /= "none" THEN cd
        ELSE IF self.n = 2
        THEN IF IsNone(cd.val) THEN Raise("TypeError")
             ELSE Ok(Root(Mul(cd.val, self.spacing), 2))
        ELSE IF self.layout = "circular"
        THEN calculate_equivalent_spacing_circular(self, cd.val)
        ELSE IF self.layout = "flat"
        THEN calculate_equivalent_spacing_flat(self, cd.val)
        ELSE Raise("ValueError")

\* mutant: the conductor's resistance is not shared among the n conductors
bundle_resistance_undivided(self, cond) ==
    IF self.n = 0 THEN Raise("ZeroDivisionError")
    ELSE Ok(cond.resistance_per_km)

\* line 65: the bundle's resistance
bundle_resistance(self, cond) ==
    IF self.n = 0 THEN Raise("ZeroDivisionError")
    ELSE Ok(Div(cond.resistance_per_km, FromInt(self.n)))

\* ConductorBundle.__post_init__
ConductorBundle_post_init(self, cond) ==
    LET r == bundle_resistance(self, cond)
        s1 == [self EXCEPT !.resistance_per_km = r.val]
        l == calculate_equivalent_spacing(s1, cond, "inductance")
        s2 == [s1 EXCEPT !.spacing_L = l.val]
        c == calculate_equivalent_spacing(s2, cond, "capacitance")
    IN  IF r.raised /= "none" THEN [raised |-> r.raised, self |-> self]
        ELSE IF l.raised /= "none" THEN [raised |-> l.raised, self |-> s1]
        ELSE IF c.raised /= "none" THEN [raised |-> c.raised, self |-> s2]
        ELSE [raised |-> "none", self |-> [s2 EXCEPT !.spacing_C = c.val]]

\* ------------------------------------------------------------------- Tower
Pairs == {"ab", "ac", "bc"}

\* a value no field holds before it is computed, shaped like the field
NoDistances == [pq \in Pairs |-> None]

NoLog == [coef |-> "unset", arg |-> None]

NoCapacitance == [coef |-> "unset", arg |-> None, minus |-> None]

\* the fields of a Tower whose __init__ has stored the arguments (locations
\* is a PhaseLocations of (x, height) tuples); its bundle field refers to the
\* object held in the variable bundle
TowerFields(locations, circuits) ==
    [cls |-> "Tower", locations |-> locations, circuits |-> circuits, freq |-> 60,
     a |-> <<0, 0>>, b |-> <<0, 0>>, c |-> <<0, 0>>,
     true_distance |-> NoDistances, reflected_distance |-> NoDistances,
     equivalent_distance |-> None, equivalent_reflected_distance |-> None,
     equivalent_height |-> None,
     resistance |-> None, inductance |-> NoLog, capacitance |-> NoCapacitance]

\* sqrt(dx ** 2 + dy ** 2)
Hypot(dx, dy) == Root(FromInt(dx * dx + dy * dy), 2)

\* lines 130-134
TrueDistance(p, q) == Hypot(p[1] - q[1], p[2] - q[2])

\* mutant: the reflected distance with the heights subtracted
ReflectedDistance_HeightsSubtracted(p, q) == Hypot(p[1] - q[1], p[2] - q[2])

\* lines 135-139
ReflectedDistance(p, q) == Hypot(p[1] - q[1], p[2] + q[2])

\* math.prod of three values
Prod3(x, y, z) == Mul(Mul(x, y), z)

\* Tower.calculate_distances
calculate_distances(self) ==
    LET td == [pq \in Pairs |->
                 IF pq = "ab" THEN TrueDistance(self.a, self.b)
                 ELSE IF pq = "ac" THEN TrueDistance(self.a, self.c)
                 ELSE TrueDistance(self.b, self.c)]
        rd == [pq \in Pairs |->
                 IF pq = "ab" THEN ReflectedDistance(self.a, self.b)
                 ELSE IF pq = "ac" THEN ReflectedDistance(self.a, self.c)
                 ELSE ReflectedDistance(self.b, self.c)]
    IN  [self EXCEPT
           !.true_distance = td,
           !.reflected_distance = rd,
           !.equivalent_distance = Root(Prod3(td["ab"], td["ac"], td["bc"]), 3),
           !.equivalent_reflected_distance =
               Root(Prod3(rd["ab"], rd["ac"], rd["bc"]), 3),
           !.equivalent_height =
               Root(FromInt(self.a[2] * self.b[2] * self.c[2]), 3)]

\* Tower.calculate_inductance_per_km: mu_0 / (2 * pi) * log(arg)
calculate_inductance_per_km(self, bndl) ==
    IF IsZero(bndl.spacing_L) THEN Raise("ZeroDivisionError")
    ELSE IF IsZero(self.equivalent_distance) THEN Raise("math domain error")
    ELSE [raised |-> "none",
          val |-> [coef |-> "mu_0/(2*pi)",
                   arg |-> Div(self.equivalent_distance, bndl.spacing_L)]]

\* Tower.calculate_shunt_capacitance_per_km:
\* (2 * pi * epsilon_0) / (log(arg) - log(minus))
calculate_shunt_capacitance_per_km(self, bndl) ==
    IF IsZero(bndl.spacing_C) THEN Raise("ZeroDivisionError")
    ELSE IF IsZero(self.equivalent_distance) THEN Raise("math domain error")
    ELSE IF IsZero(self.equivalent_height) THEN Raise("ZeroDivisionError")
    ELSE IF IsZero(self.equivalent_reflected_distance) THEN Raise("math domain error")
    ELSE LET x == Div(self.equivalent_distance, bndl.spacing_C)
             y == Div(self.equivalent_reflected_distance,
                      Mul(FromInt(2), self.equivalent_height))
         IN  IF x = y THEN Raise("ZeroDivisionError")
             ELSE [raised |-> "none",
                   val |-> [coef |-> "2*pi*epsilon_0", arg |-> x, minus |-> y]]

\* mutant: the resistance of one conductor instead of the bundle's
tower_resistance_of_one_conductor(bndl) ==
    Mul(bndl.resistance_per_km, FromInt(bndl.n))

\* line 125: the tower's resistance
tower_resistance(bndl) == bndl.resistance_per_km

\* lines 121-127: the geometry and the electrical parameters
ComputeTower(self, bndl) ==
    LET s1 == calculate_distances(
                 [self EXCEPT !.a = self.locations.a, !.b = self.locations.b,
                              !.c = self.locations.c])
        s2 == [s1 EXCEPT !.resistance = tower_resistance(bndl)]
        l == calculate_inductance_per_km(s2, bndl)
        s3 == [s2 EXCEPT !.inductance = l.val]
        c == calculate_shunt_capacitance_per_km(s3, bndl)
    IN  IF l.raised /= "none" THEN [raised |-> l.raised, self |-> s2]
        ELSE IF c.raised /= "none" THEN [raised |-> c.raised, self |-> s3]
        ELSE [raised |-> "none", self |-> [s3 EXCEPT !.capacitance = c.val]]

\* mutant: the circuit count is checked after the computation
Tower_post_init_late_check(self, bndl) ==
    LET r == ComputeTower(self, bndl)
    IN  IF r.raised /= "none" THEN r
        ELSE IF self.circuits /= 1 THEN [raised |-> "ValueError", self |-> r.self]
        ELSE r

\* Tower.__post_init__
Tower_post_init(self, bndl) ==
    IF self.circuits /= 1 THEN [raised |-> "ValueError", self |-> self]
    ELSE ComputeTower(self, bndl)

\* ------------------------------------------------------------------ inputs
Magnitudes == {FromInt(k) : k \in 0..MaxMag}

Radii == {None} \cup Magnitudes

\* "None" is the absent material; "ACSR" has no entry in either table
Materials == {"None", "aluminum", "ACSR"}

Resistances == {None, FromInt(1)}

\* 6 is the gmr at which, for spacing 1, the two n = 4 formulas meet
Gmrs == {None, FromInt(1), FromInt(6)}

Areas == {None} \cup Magnitudes

Counts == 0..MaxN

Spacings == Magnitudes

\* "triangular" stands for every layout string other than the two known ones
Layouts == {"circular", "flat", "triangular"}

CircuitCounts == {1, 2}

\* towers symmetric about the middle phase: b stands at x = 0, a and c at
\* the same offset to its left and right and at one height, b at another
PhaseLocations ==
    {[a |-> <<0 - u, ho>>, b |-> <<0, hm>>, c |-> <<u, ho>>] :
        u \in 0..MaxX, ho \in 0..MaxH, hm \in 0..MaxH}

\* ------------------------------------------------------------------- state
\* The caller builds one chain bottom-up: a Conductor, a ConductorBundle on
\* it, a Tower on that.  What a constructor does depends on its arguments
\* only, so one call of each reaches every outcome; an exception propagates
\* to the caller and ends the chain.
\* conductor, bundle, tower: the object each constructor returned (NoObj
\*   before the call and when it raised); bundle.conductor is the object in
\*   conductor, tower.bundle the one in bundle
\* call: the latest call and its arguments;  err: what it raised
\* pc: the constructor the caller calls next
\* assigned: whether the caller has assigned to an attribute of one of the
\*   objects since they were constructed
VARIABLES conductor, bundle, tower, call, err, pc, assigned

vars == <<conductor, bundle, tower, call, err, pc, assigned>>

NoObj == [cls |-> "none"]

Init ==
    /\ conductor = NoObj
    /\ bundle = NoObj
    /\ tower = NoObj
    /\ call = [op |-> "none"]
    /\ err = "none"
    /\ pc = "Conductor"
    /\ assigned = FALSE

\* where the caller stands after a call that raised exc ("none": returned)
After(exc, next) == IF exc = "none" THEN next ELSE "raised"

\* conductor = Conductor(radius, material, resistance_per_km, gmr, area)
NewConductor ==
    /\ pc = "Conductor"
    /\ \E radius \in Radii, material \in Materials, resistance_per_km \in Resistances,
          gmr \in Gmrs, area \in Areas :
        LET r == Conductor_post_init(
                    ConductorFields(radius, material, resistance_per_km, gmr, area))
        IN  /\ conductor' = IF r.raised = "none" THEN r.self ELSE NoObj
            /\ call' = [op |-> "Conductor", radius |-> radius, material |-> material,
                        resistance_per_km |-> resistance_per_km, gmr |-> gmr,
                        area |-> area]
            /\ err' = r.raised
            /\ pc' = After(r.raised, "ConductorBundle")
            /\ UNCHANGED <<bundle, tower, assigned>>

\* bundle = ConductorBundle(n, spacing, conductor, layout)
NewConductorBundle ==
    /\ pc = "ConductorBundle"
    /\ \E n \in Counts, spacing \in Spacings, layout \in Layouts :
        LET r == ConductorBundle_post_init(BundleFields(n, spacing, layout), conductor)
        IN  /\ bundle' = IF r.raised = "none" THEN r.self ELSE NoObj
            /\ call' = [op |-> "ConductorBundle", n |-> n, spacing |-> spacing,
                        layout |-> layout]
            /\ err' = r.raised
            /\ pc' = After(r.raised, "Tower")
            /\ UNCHANGED <<conductor, tower, assigned>>

\* tower = Tower(locations, bundle, circuits)
NewTower ==
    /\ pc = "Tower"
    /\ \E locations \in PhaseLocations, circuits \in CircuitCounts :
        LET r == Tower_post_init(TowerFields(locations, circuits), bundle)
        IN  /\ tower' = IF r.raised = "none" THEN r.self ELSE NoObj
            /\ call' = [op |-> "Tower", locations |-> locations, circuits |-> circuits]
            /\ err' = r.raised
            /\ pc' = After(r.raised, "done")
            /\ UNCHANGED <<conductor, bundle, assigned>>

Next == NewConductor \/ NewConductorBundle \/ NewTower

\* the constructors alone
Spec == Init /\ [][Next]_vars

\* The three classes are plain dataclasses (not frozen): every field is an
\* ordinary attribute, and the caller who holds the finished chain can assign
\* to it.  No derived field is recomputed.
\* conductor.resistance_per_km = v
AssignConductorResistance ==
    /\ pc = "done"
    /\ \E v \in Resistances \ {None} :
        /\ conductor' = [conductor EXCEPT !.resistance_per_km = v]
        /\ call' = [op |-> "setattr", obj |-> "conductor",
                    name |-> "resistance_per_km"]
    /\ assigned' = TRUE
    /\ UNCHANGED <<bundle, tower, err, pc>>

\* bundle.resistance_per_km = v
AssignBundleResistance ==
    /\ pc = "done"
    /\ \E v \in Resistances \ {None} :
        /\ bundle' = [bundle EXCEPT !.resistance_per_km = v]
        /\ call' = [op |-> "setattr", obj |-> "bundle",
                    name |-> "resistance_per_km"]
    /\ assigned' = TRUE
    /\ UNCHANGED <<conductor, tower, err, pc>>

Assign == AssignConductorResistance \/ AssignBundleResistance

\* the constructors and the caller's attribute assignments
SpecAssign == Init /\ [][Next \/ Assign]_vars

\* The geometry of a tower alone: calculate_distances reads the locations
\* only, so it is exercised on one conductor and a few bundles that the
\* constructors return, and on towers of every shape.
\* Conductor(radius=1, material="aluminum", resistance_per_km=1, gmr=1)
StandingConductor ==
    Conductor_post_init(
        ConductorFields(FromInt(1), "aluminum", FromInt(1), FromInt(1), None)).self

\* the circular bundles of two and three of them at a positive spacing
StandingBundles ==
    {ConductorBundle_post_init(BundleFields(n, s, "circular"), StandingConductor).self :
        n \in 2..3, s \in Spacings \ {Zero}}

\* every placing of the three phases: x in -MaxX..MaxX, height in 0..MaxH+1
PhasePoints == {<<x, h>> : x \in (0 - MaxX)..MaxX, h \in 0..(MaxH + 1)}

AllPhaseLocations == [a : PhasePoints, b : PhasePoints, c : PhasePoints]

\* the state after conductor = Conductor(...); bundle = ConductorBundle(...)
InitTower ==
    /\ conductor = StandingConductor
    /\ bundle \in StandingBundles
    /\ tower = NoObj
    /\ call = [op |-> "ConductorBundle", n |-> bundle.n, spacing |-> bundle.spacing,
               layout |-> bundle.layout]
    /\ err = "none"
    /\ pc = "Tower"
    /\ assigned = FALSE

\* tower = Tower(locations, bundle, circuits), the phases placed anywhere
NewTowerAnywhere ==
    /\ pc = "Tower"
    /\ \E locations \in AllPhaseLocations, circuits \in CircuitCounts :
        LET r == Tower_post_init(TowerFields(locations, circuits), bundle)
        IN  /\ tower' = IF r.raised = "none" THEN r.self ELSE NoObj
            /\ call' = [op |-> "Tower", locations |-> locations, circuits |-> circuits]
            /\ err' = r.raised
            /\ pc' = After(r.raised, "done")
            /\ UNCHANGED <<conductor, bundle, assigned>>

\* the Tower constructor on a standing bundle
SpecTower == InitTower /\ [][NewTowerAnywhere]_vars

\* --------------------------------------------------------------- ordering
\* 10^5 * ln of a prime or a symbol, rounded (rho_aluminum taken as 2.65e-8)
LnAtom(x) ==
    CASE x = 2 -> 69315 [] x = 3 -> 109861 [] x = 5 -> 160944 [] x = 7 -> 194591
      [] x = 11 -> 239790 [] x = 13 -> 256495 [] x = 17 -> 283321
      [] x = 19 -> 294444 [] x = 23 -> 313549 [] x = 29 -> 336730
      [] x = 31 -> 343399 [] x = 37 -> 361092 [] x = 41 -> 371357
      [] x = 43 -> 376120 [] x = 47 -> 385015

LnSym(t) ==
    CASE t = "pi" -> 114473 [] t = "exp(1/4)" -> 25000
      [] t = "rho_aluminum" -> 0 - 1744612

RECURSIVE SumPrimes(_, _)
SumPrimes(S, f) ==
    IF S = {} THEN 0
    ELSE LET q == CHOOSE x \in S : TRUE
         IN  f[q] * LnAtom(q) + SumPrimes(S \ {q}, f)

RECURSIVE SumSyms(_, _)
SumSyms(S, f) ==
    IF S = {} THEN 0
    ELSE LET t == CHOOSE x \in S : TRUE
         IN  f[t] * LnSym(t) + SumSyms(S \ {t}, f)

\* Unit * 10^5 * ln(a), for a > 0
Ln(a) == SumPrimes({q \in Primes : a.e.p[q] /= 0}, a.e.p) + SumSyms(Syms, a.e.s)

\* a < b on floats (neither None); exact whenever a and b differ by more
\* than the rounding of the logarithms
Less(a, b) ==
    IF IsZero(b) THEN FALSE
    ELSE IF IsZero(a) THEN TRUE
    ELSE Ln(a) < Ln(b)

\* ================================================================== claims
KnownPermeability(m) == m \in DOMAIN relative_permeability

KnownResistivity(m) == m \in DOMAIN resistivity

\* C1: a Conductor call with a non-null radius returns if and only if (gmr
\* was supplied or the material has a permeability) and (resistance_per_km
\* was supplied or the material has a resistivity), and raises ValueError
\* otherwise.
C1_SucceedsIffResolvable ==
    (call.op = "Conductor" /\ ~IsNone(call.radius)) =>
        LET resolvable ==
                /\ ~IsNone(call.gmr) \/ KnownPermeability(call.material)
                /\ ~IsNone(call.resistance_per_km) \/ KnownResistivity(call.material)
        IN  /\ (err = "none") <=> resolvable
            /\ ~resolvable => err = "ValueError"

\* C2: after a Conductor call that returned, gmr and resistance_per_km are
\* not None; a supplied gmr, resistance_per_km or area is kept; a derived gmr
\* is radius * exp(permeability / 4); a derived resistance_per_km times the
\* area (the supplied one, else pi * radius^2) is resistivity * 1000; and a
\* supplied area below pi * radius^2 gives a resistance strictly above the one
\* the same call without the area gives.
C2_Resolved ==
    (call.op = "Conductor" /\ err = "none") =>
        /\ ~IsNone(conductor.gmr) /\ ~IsNone(conductor.resistance_per_km)
        /\ ~IsNone(call.gmr) => conductor.gmr = call.gmr
        /\ ~IsNone(call.resistance_per_km) =>
               conductor.resistance_per_km = call.resistance_per_km
        /\ ~IsNone(call.area) => conductor.area = call.area
        /\ IsNone(call.gmr) =>
               conductor.gmr =
                   Mul(call.radius,
                       ExpQuarter(relative_permeability[call.material]))
        /\ IsNone(call.resistance_per_km) =>
               LET area == IF IsNone(call.area)
                           THEN Mul(Pi, Mul(call.radius, call.radius))
                           ELSE call.area
               IN  /\ conductor.area = area
                   /\ Mul(conductor.resistance_per_km, area) =
                          Mul(resistivity[call.material], FromInt(1000))
        /\ (/\ IsNone(call.resistance_per_km)
            /\ ~IsNone(call.area)
            /\ Less(call.area, Mul(Pi, Mul(call.radius, call.radius)))) =>
               LET solid == Conductor_post_init(
                               ConductorFields(call.radius, call.material, None,
                                               call.gmr, None))
               IN  /\ solid.raised = "none"
                   /\ Less(solid.self.resistance_per_km,
                           conductor.resistance_per_km)

\* C2 witness: a conductor whose gmr and resistance were both derived, with
\* a supplied area below the solid cross-section
C2_Witness ==
    /\ call.op = "Conductor" /\ err = "none"
    /\ IsNone(call.gmr) /\ IsNone(call.resistance_per_km)
    /\ ~IsNone(call.area)
    /\ Less(call.area, Mul(Pi, Mul(call.radius, call.radius)))

\* C3: a ConductorBundle call that returned had n in {2, 3, 4}, and the
\* bundle's resistance_per_km times n is the conductor's resistance_per_km.
C3_BundleResistance ==
    (call.op = "ConductorBundle" /\ err = "none") =>
        /\ bundle.n \in {2, 3, 4}
        /\ Mul(bundle.resistance_per_km, FromInt(bundle.n)) =
               conductor.resistance_per_km

\* C3 witness: a bundle of three conductors was built
C3_Witness ==
    /\ call.op = "ConductorBundle" /\ err = "none"
    /\ bundle.n = 3
    /\ ~IsZero(conductor.resistance_per_km)

\* the equivalent spacing sp of a bundle (n, layout, spacing s) for the
\* conductor distance d, stated without roots
SpacingLaw(sp, n, layout, d, s) ==
    /\ n = 2 => Pow(sp, 2) = Mul(d, s)
    /\ (n = 3 /\ layout = "circular") => Pow(sp, 3) = Mul(d, Pow(s, 2))
    /\ (n = 4 /\ layout = "circular") =>
           Pow(sp, 8) = Mul(FromInt(2), Mul(Pow(d, 2), Pow(s, 6)))
    /\ (n = 3 /\ layout = "flat") => Pow(sp, 3) = Mul(FromInt(2), Mul(d, Pow(s, 2)))
    /\ (n = 4 /\ layout = "flat") => Pow(sp, 8) = Mul(FromInt(12), Mul(d, Pow(s, 3)))

\* C4: in a bundle that was built, spacing_L follows the formula of its
\* (n, layout) with d = conductor.gmr and spacing_C with d = conductor.radius:
\* n=2: (d s)^(1/2); n=3 circular: (d s^2)^(1/3); n=4 circular:
\* (d s^3 sqrt 2)^(1/4); n=3 flat: (2 d s^2)^(1/3); n=4 flat: (12 d s^3)^(1/8).
C4_EquivalentSpacing ==
    (call.op = "ConductorBundle" /\ err = "none") =>
        /\ SpacingLaw(bundle.spacing_L, bundle.n, bundle.layout,
                      conductor.gmr, bundle.spacing)
        /\ SpacingLaw(bundle.spacing_C, bundle.n, bundle.layout,
                      conductor.radius, bundle.spacing)
        /\ bundle.n = 2 \/ bundle.layout \in {"circular", "flat"}

\* C4 witness: a flat bundle of four conductors with non-zero spacings whose
\* gmr and radius differ
C4_Witness ==
    /\ call.op = "ConductorBundle" /\ err = "none"
    /\ bundle.n = 4 /\ bundle.layout = "flat"
    /\ ~IsZero(bundle.spacing_L) /\ ~IsZero(bundle.spacing_C)
    /\ conductor.gmr /= conductor.radius

\* what ConductorBundle(n, spacing, conductor, layout) does on the conductor
\* of the chain
BundleCall(n, spacing, layout) ==
    ConductorBundle_post_init(BundleFields(n, spacing, layout), conductor)

\* C5: a ConductorBundle call with n outside {2, 3, 4} raises
\* NotImplementedError, whatever the layout, and returns no bundle.
C5_UnsupportedCount ==
    (call.op = "ConductorBundle" /\ call.n \notin {2, 3, 4}) =>
        /\ err = "NotImplementedError"
        /\ bundle = NoObj

\* C6: a ConductorBundle call with n in {3, 4} and a layout other than
\* circular and flat raises ValueError; with n = 2 the call returns, and with
\* every layout string it returns the same spacing_L and spacing_C.
C6_LayoutOnlyBeyondTwo ==
    call.op = "ConductorBundle" =>
        /\ (call.n \in {3, 4} /\ call.layout \notin {"circular", "flat"}) =>
               err = "ValueError"
        /\ call.n = 2 =>
               /\ err = "none"
               /\ \A layout \in Layouts :
                    LET other == BundleCall(2, call.spacing, layout)
                    IN  /\ other.raised = "none"
                        /\ other.self.spacing_L = bundle.spacing_L
                        /\ other.self.spacing_C = bundle.spacing_C

\* C7: for n in {3, 4}, a positive spacing and one conductor (here even one
\* whose gmr and radius are positive), the circular and the flat bundle differ
\* in spacing_L and differ in spacing_C.
C7_LayoutsDiffer ==
    (/\ call.op = "ConductorBundle" /\ err = "none"
     /\ bundle.n \in {3, 4}
     /\ ~IsZero(bundle.spacing)
     /\ ~IsZero(conductor.gmr) /\ ~IsZero(conductor.radius)) =>
        LET other == BundleCall(bundle.n, bundle.spacing,
                                IF bundle.layout = "flat" THEN "circular" ELSE "flat")
        IN  /\ other.raised = "none"
            /\ other.self.spacing_L /= bundle.spacing_L
            /\ other.self.spacing_C /= bundle.spacing_C

\* C8: a Tower call with circuits other than 1 raises ValueError whatever the
\* locations and the bundle, returns no tower, and leaves every derived field
\* of the object as the constructor found it.
C8_CircuitsCheckedFirst ==
    (call.op = "Tower" /\ call.circuits /= 1) =>
        /\ err = "ValueError"
        /\ tower = NoObj
        /\ Tower_post_init(TowerFields(call.locations, call.circuits), bundle).self
               = TowerFields(call.locations, call.circuits)

\* C8 witness: a two-circuit tower was refused although its phases a and c
\* coincide on the ground, where the geometry itself has no value
C8_Witness ==
    /\ call.op = "Tower" /\ call.circuits = 2
    /\ err = "ValueError"
    /\ call.locations.a = call.locations.c
    /\ call.locations.a[2] = 0

\* C9: every constructor call that fails raises an error of the taxonomy
\* (ValueError raised by the module, NotImplementedError), never another one.
C9_OnlyDocumentedErrors == err /= "none" => err \in Taxonomy

\* the relations between the objects of the chain
ChainRelations ==
    /\ bundle.cls = "ConductorBundle" =>
           Mul(bundle.resistance_per_km, FromInt(bundle.n)) =
               conductor.resistance_per_km
    /\ tower.cls = "Tower" => tower.resistance = bundle.resistance_per_km

PhasesOf(loc, pq) ==
    IF pq = "ab" THEN <<loc.a, loc.b>>
    ELSE IF pq = "ac" THEN <<loc.a, loc.c>>
    ELSE <<loc.b, loc.c>>

\* the square of an integer
Sq(k) == k * k

\* C11: in a Tower that was built (circuits = 1), for every pair pq of
\* phases p, q: true_distance[pq]^2 = (p.x - q.x)^2 + (p.h - q.h)^2 and
\* reflected_distance[pq]^2 = (p.x - q.x)^2 + (p.h + q.h)^2; the cubes of
\* equivalent_distance, equivalent_reflected_distance and equivalent_height
\* are the products of the three true distances, the three reflected
\* distances and the three heights; and no reflected distance is below the
\* true distance of its pair (the heights being non-negative).
C11_Distances ==
    (call.op = "Tower" /\ err = "none") =>
        /\ tower.circuits = 1
        /\ \A pq \in Pairs :
              LET p == PhasesOf(call.locations, pq)[1]
                  q == PhasesOf(call.locations, pq)[2]
              IN  /\ Pow(tower.true_distance[pq], 2) =
                         FromInt(Sq(p[1] - q[1]) + Sq(p[2] - q[2]))
                  /\ Pow(tower.reflected_distance[pq], 2) =
                         FromInt(Sq(p[1] - q[1]) + Sq(p[2] + q[2]))
                  /\ ~Less(tower.reflected_distance[pq], tower.true_distance[pq])
        /\ Pow(tower.equivalent_distance, 3) =
               Mul(tower.true_distance["ab"],
                   Mul(tower.true_distance["ac"], tower.true_distance["bc"]))
        /\ Pow(tower.equivalent_reflected_distance, 3) =
               Mul(tower.reflected_distance["ab"],
                   Mul(tower.reflected_distance["ac"], tower.reflected_distance["bc"]))
        /\ Pow(tower.equivalent_height, 3) =
               FromInt(call.locations.a[2] * call.locations.b[2] * call.locations.c[2])

\* C11 witness: a tower was built whose phases a and b stand at different
\* heights and different x, and b and c at different heights again
C11_Witness ==
    /\ call.op = "Tower" /\ err = "none"
    /\ call.locations.a[1] /= call.locations.b[1]
    /\ call.locations.a[2] /= call.locations.b[2]
    /\ call.locations.b[2] /= call.locations.c[2]
    /\ tower.reflected_distance["ab"] /= tower.true_distance["ab"]

====
